---- MODULE Spec2Model ----
(***************************************************************************)
(* A model of ZmqService (ServiceApp/server/src/services/zmqService.ts):   *)
(* the subscription registry (_subscriptions), the lazily opened socket    *)
(* (_socket) and the message handler (handleMessage).                      *)
(*                                                                         *)
(* Strings are sequences of one-character strings, so that split(' '),     *)
(* startsWith and parseInt are computed and not assumed.                   *)
(***************************************************************************)
EXTENDS Integers, Sequences, FiniteSets, TLC

VARIABLES subscriptions, socket, openSockets, issued, returned, lastOp, lastMsg

vars == <<subscriptions, socket, openSockets, issued, returned, lastOp, lastMsg>>

(***************************************************************************)
(* Bounds of the model.                                                    *)
(***************************************************************************)
\* The number of subscribe calls of a run (each call draws one uuid).
MaxIds == 3

(***************************************************************************)
(* Text.                                                                   *)
(***************************************************************************)
SPACE == " "

\* 'tx', the only event handleMessage dispatches (zmqService.ts:168).
TX == <<"t", "x">>

\* A second topic. Its name is a prefix of 'tx', so its filter also lets
\* 'tx' messages through the socket (ZeroMQ filters match by prefix).
T == <<"t">>

Events == {TX, T}

\* this._config.prefix
ConfigPrefix == <<"S">>

\* The index of the tag among the fields of a message (zmqService.ts:166).
TagIndex == 12
HashIndex == 1
AddressIndex == 2
TimestampIndex == 5
BundleIndex == 8

\* JavaScript's undefined: the value of a missing array element or object key.
\* It is no text: every element of a text is one character.
Undefined == <<"undefined">>

\* JavaScript numbers, as far as parseInt produces them: an integer, or NaN
\* when no digit can be read.
NaN == [isNaN |-> TRUE, value |-> 0]

Number(n) == [isNaN |-> FALSE, value |-> n]

\* String.prototype.split(' '): the fields between single spaces. Two
\* adjacent spaces delimit an empty field.
RECURSIVE SplitFrom(_, _, _, _)
SplitFrom(s, i, cur, acc) ==
    IF i > Len(s) THEN Append(acc, cur)
    ELSE IF s[i] = SPACE THEN SplitFrom(s, i + 1, <<>>, Append(acc, cur))
    ELSE SplitFrom(s, i + 1, Append(cur, s[i]), acc)

Split(s) == SplitFrom(s, 1, <<>>, <<>>)

\* Array indexing, 0-based as in the source: undefined past the end.
At(arr, k) == IF k + 1 <= Len(arr) THEN arr[k + 1] ELSE Undefined

\* String.prototype.startsWith
StartsWith(s, p) ==
    /\ Len(p) <= Len(s)
    /\ \A i \in 1..Len(p) : s[i] = p[i]

Digits == <<"0", "1", "2", "3", "4", "5", "6", "7", "8", "9">>

IsDigit(c) == \E d \in 1..Len(Digits) : Digits[d] = c

DigitValue(c) == (CHOOSE d \in 1..Len(Digits) : Digits[d] = c) - 1

\* The value of the longest run of digits of s that starts at position i,
\* continuing the value acc; seen tells whether a digit was read.
RECURSIVE ReadDigits(_, _, _, _)
ReadDigits(s, i, acc, seen) ==
    IF i <= Len(s) /\ IsDigit(s[i])
    THEN ReadDigits(s, i + 1, acc * 10 + DigitValue(s[i]), TRUE)
    ELSE IF seen THEN Number(acc) ELSE NaN

\* parseInt(s, 10) of a text without leading blanks: an optional sign, then digits up to the first character
\* that is none; NaN when there is no digit.
ParseInt(s) ==
    IF Len(s) > 0 /\ s[1] = "-"
    THEN LET v == ReadDigits(s, 2, 0, FALSE)
         IN  IF v.isNaN THEN NaN ELSE Number(0 - v.value)
    ELSE IF Len(s) > 0 /\ s[1] = "+" THEN ReadDigits(s, 2, 0, FALSE)
    ELSE ReadDigits(s, 1, 0, FALSE)

(***************************************************************************)
(* The collaborators of ZmqService.                                        *)
(***************************************************************************)
\* extractMessageType (utils/eclassHelper): the message type a tag encodes,
\* or undefined. The type is read from the last character of the tag.
extractMessageType(tag) ==
    IF tag = Undefined \/ Len(tag) = 0 THEN Undefined
    ELSE IF tag[Len(tag)] = "A" THEN <<"callForProposal">>
    ELSE IF tag[Len(tag)] = "B" THEN <<"proposal">>
    ELSE Undefined

\* getPayload (utils/iotaHelper): the payload of a bundle.
getPayload(bundle) == <<"payload of", bundle>>

\* uuid(): a token no earlier call returned; issuedSoFar counts the calls.
uuid(issuedSoFar) == issuedSoFar + 1

Ids == 1..MaxIds

(***************************************************************************)
(* The socket. present: this._socket is set. connected: connect(endpoint)  *)
(* succeeded. handler: the 'message' handler is attached. filters[e]: how  *)
(* often subscribe(e) was called on this socket, less the unsubscribe(e)   *)
(* calls.                                                                  *)
(***************************************************************************)
NoFilters == [e \in Events |-> 0]

NoSocket == [present |-> FALSE, connected |-> FALSE, handler |-> FALSE,
             filters |-> NoFilters]

\* socket.subscribe(topic)
SocketSubscribe(sock, topic) ==
    [sock EXCEPT !.filters[topic] = @ + 1]

\* socket.unsubscribe(topic): dropping a filter that is not set does nothing.
SocketUnsubscribe(sock, topic) ==
    [sock EXCEPT !.filters[topic] = IF @ > 0 THEN @ - 1 ELSE 0]

\* The outcomes of opening a socket: it opens, zmq.socket('sub') throws, or
\* socket.connect(endpoint) throws.
OpenOutcomes == {"ok", "socketThrows", "connectThrows"}

(***************************************************************************)
(* The service. st is the state of a ZmqService:                           *)
(*   st.subscriptions  this._subscriptions: event key -> list of ids (a    *)
(*                     subscription {id, callback} is named by its id)     *)
(*   st.socket         this._socket                                        *)
(*   st.openSockets    the sockets created and not yet closed              *)
(***************************************************************************)
Keys(st) == DOMAIN st.subscriptions

\* disconnect()
disconnect(st) ==
    IF st.socket.present
    THEN [st EXCEPT !.socket = NoSocket, !.openSockets = @ - 1]
    ELSE st

\* A slip: the loop over the keys left out.
ApplyKeyFilters_None(keys) == [e \in Events |-> 0]

\* The filters that the loop of connect() applies: one per registry key.
ApplyKeyFilters(keys) == [e \in Events |-> IF e \in keys THEN 1 ELSE 0]

\* A slip: no test for a socket at hand; a socket is opened on every call.
connect_AlwaysOpens(st, outcome) ==
    CASE outcome = "socketThrows" ->
            [st |-> st, threw |-> TRUE, attempts |-> 1]
      [] outcome = "connectThrows" ->
            [st |-> [st EXCEPT !.socket = [NoSocket EXCEPT !.present = TRUE],
                               !.openSockets = @ + 1],
             threw |-> TRUE, attempts |-> 1]
      [] outcome = "ok" ->
            [st |-> [st EXCEPT !.socket = [present |-> TRUE,
                                           connected |-> TRUE,
                                           handler |-> TRUE,
                                           filters |-> ApplyKeyFilters(Keys(st))],
                               !.openSockets = @ + 1],
             threw |-> FALSE, attempts |-> 1]

\* connect(): the state after it, whether it threw, and how many sockets it
\* tried to create.
connect(st, outcome) ==
    IF ~st.socket.present
    THEN CASE outcome = "socketThrows" ->
                [st |-> st, threw |-> TRUE, attempts |-> 1]
           [] outcome = "connectThrows" ->
                [st |-> [st EXCEPT !.socket = [NoSocket EXCEPT !.present = TRUE],
                                   !.openSockets = @ + 1],
                 threw |-> TRUE, attempts |-> 1]
           [] outcome = "ok" ->
                [st |-> [st EXCEPT !.socket = [present |-> TRUE,
                                               connected |-> TRUE,
                                               handler |-> TRUE,
                                               filters |-> ApplyKeyFilters(Keys(st))],
                                   !.openSockets = @ + 1],
                 threw |-> FALSE, attempts |-> 1]
    ELSE [st |-> st, threw |-> FALSE, attempts |-> 0]

\* The registry with one more key, or one more subscriber under a key.
SetKey(subs, event, list) ==
    [e \in DOMAIN subs \cup {event} |-> IF e = event THEN list ELSE subs[e]]

DeleteKey(subs, event) ==
    [e \in DOMAIN subs \ {event} |-> subs[e]]

\* A slip: the subscription pushed under every key instead of its own.
AddSubscription_PushesUnderEveryKey(st, event, id) ==
    [st EXCEPT !.subscriptions =
        [e \in DOMAIN st.subscriptions \cup {event} |->
            Append(IF e \in DOMAIN st.subscriptions THEN st.subscriptions[e] ELSE <<>>,
                   id)]]

\* The lines of internalAddEventCallback before connect(): the key is
\* created (and its filter applied on a socket that exists), the
\* subscription is pushed.
AddSubscription(st, event, id) ==
    LET isNew == event \notin Keys(st)
        sock  == IF isNew /\ st.socket.present
                 THEN SocketSubscribe(st.socket, event)
                 ELSE st.socket
        list  == IF isNew THEN <<>> ELSE st.subscriptions[event]
    IN  [st EXCEPT !.socket = sock,
                   !.subscriptions = SetKey(st.subscriptions, event, Append(list, id))]

\* A slip: the error of connect() caught and dropped, the id returned.
internalAddEventCallback_SwallowsError(st, event, id, outcome) ==
    LET c == connect(AddSubscription(st, event, id), outcome)
    IN  [st |-> c.st, threw |-> FALSE, attempts |-> c.attempts, id |-> id]

\* internalAddEventCallback(event, callback), with the uuid it draws and the
\* outcome of opening the socket: the state after it, whether it threw, the
\* id it returned (0: none) and the sockets it tried to create.
internalAddEventCallback(st, event, id, outcome) ==
    LET c == connect(AddSubscription(st, event, id), outcome)
    IN  [st |-> c.st, threw |-> c.threw, attempts |-> c.attempts,
         id |-> IF c.threw THEN 0 ELSE id]

\* subscribe(event, callback); subscribeEvent is the same.
subscribe(st, event, id, outcome) ==
    internalAddEventCallback(st, event, id, outcome)

\* A slip: the splice of line 66 taking the last element, not the one found.
RemoveAt_RemovesLast(list, j) == SubSeq(list, 1, Len(list) - 1)

\* list.splice(j, 1) of line 66, with j counted from 1.
RemoveAt(list, j) == SubSeq(list, 1, j - 1) \o SubSeq(list, j + 1, Len(list))

\* The subscriber lists that hold the id.
Holders(subs, subscriptionId) ==
    {e \in DOMAIN subs : \E j \in 1..Len(subs[e]) : subs[e][j] = subscriptionId}

\* A slip: the teardown of lines 72-74 placed after the loops.
NotFound_Disconnects(st) == [st |-> disconnect(st), found |-> FALSE, threw |-> FALSE]

\* unsubscribe when both loops end without a match: nothing is touched.
NotFound(st) == [st |-> st, found |-> FALSE, threw |-> FALSE]

\* unsubscribe(subscriptionId): the state after it, whether the id was found
\* and whether it threw. The scan stops at the first list that holds the id
\* (ids are drawn fresh, so at most one list does). The subscriber is
\* spliced out before this._socket is used: with no socket the call throws
\* a TypeError at line 68 and leaves the emptied list under its key.
unsubscribe(st, subscriptionId) ==
    LET subs == st.subscriptions
    IN  IF Holders(subs, subscriptionId) = {}
        THEN NotFound(st)
        ELSE LET eventKey == CHOOSE e \in Holders(subs, subscriptionId) : TRUE
                 j        == CHOOSE k \in 1..Len(subs[eventKey]) :
                                /\ subs[eventKey][k] = subscriptionId
                                /\ \A m \in 1..(k - 1) : subs[eventKey][m] # subscriptionId
                 spliced  == RemoveAt(subs[eventKey], j)
             IN  IF Len(spliced) # 0
                 THEN [st |-> [st EXCEPT !.subscriptions[eventKey] = spliced],
                       found |-> TRUE, threw |-> FALSE]
                 ELSE IF ~st.socket.present
                 THEN [st |-> [st EXCEPT !.subscriptions[eventKey] = spliced],
                       found |-> TRUE, threw |-> TRUE]
                 ELSE LET dropped == [st EXCEPT
                                        !.socket = SocketUnsubscribe(st.socket, eventKey),
                                        !.subscriptions = DeleteKey(subs, eventKey)]
                      IN  [st |-> IF Keys(dropped) = {} THEN disconnect(dropped)
                                  ELSE dropped,
                           found |-> TRUE, threw |-> FALSE]

\* A slip: the indices of hash and address exchanged.
buildPayload_SwapsHashAndAddress(data, messageType, messageParams) ==
    [data        |-> data,
     messageType |-> messageType,
     tag         |-> At(messageParams, TagIndex),
     hash        |-> At(messageParams, AddressIndex),
     address     |-> At(messageParams, HashIndex),
     timestamp   |-> ParseInt(At(messageParams, TimestampIndex))]

\* buildPayload(data, messageType, messageParams)
buildPayload(data, messageType, messageParams) ==
    [data        |-> data,
     messageType |-> messageType,
     tag         |-> At(messageParams, TagIndex),
     hash        |-> At(messageParams, HashIndex),
     address     |-> At(messageParams, AddressIndex),
     timestamp   |-> ParseInt(At(messageParams, TimestampIndex))]

\* A slip that is the other reading of the registry: every subscriber of
\* the event is called.
DispatchTargets_FanOut(list) == list

\* The subscribers of an event whose callback a matched message reaches:
\* the one at index 0 of its list.
DispatchTargets(list) == IF Len(list) = 0 THEN <<>> ELSE <<list[1]>>

\* sendEvent(data, messageType, messageParams): the callback invocations it
\* makes, and the error it ends in ("none" when it returns). With an empty
\* list under the key, [0] is undefined and reading .callback throws.
sendEvent(st, data, messageType, messageParams) ==
    LET event   == At(messageParams, 0)
        payload == buildPayload(data, messageType, messageParams)
        targets == DispatchTargets(st.subscriptions[event])
    IN  IF Len(st.subscriptions[event]) = 0
        THEN [calls |-> <<>>, error |-> "TypeError"]
        ELSE [calls |-> [k \in 1..Len(targets) |->
                            [id |-> targets[k], event |-> event, payload |-> payload]],
              error |-> "none"]

\* A slip: the test for 'tx' left out.
Routed_AnyEvent(st, event) == event \in Keys(st)

\* The test of line 168: the event is 'tx' and the registry has its key (a
\* list, even an empty one, is truthy).
Routed(st, event) == event = TX /\ event \in Keys(st)

\* A slip: || for &&.
Matches_Either(tag, messageType) ==
    StartsWith(tag, ConfigPrefix) \/ messageType # Undefined

\* The test of line 170: the tag starts with the configured prefix and has
\* a message type.
Matches(tag, messageType) ==
    StartsWith(tag, ConfigPrefix) /\ messageType # Undefined

\* A slip: the event sent before the payload is fetched, so that a failing
\* getPayload comes after the callback.
handleMessage_DispatchesBeforeExtraction(st, message, payloadOk) ==
    LET messageParams == Split(message)
        event == At(messageParams, 0)
        tag   == At(messageParams, TagIndex)
    IN  IF Routed(st, event)
        THEN LET messageType == extractMessageType(tag)
             IN  IF tag = Undefined
                 THEN [calls |-> <<>>, error |-> "TypeError"]
                 ELSE IF Matches(tag, messageType)
                 THEN LET sent == sendEvent(st, getPayload(At(messageParams, BundleIndex)),
                                            messageType, messageParams)
                      IN  IF ~payloadOk /\ sent.error = "none"
                          THEN [calls |-> sent.calls, error |-> "PayloadError"]
                          ELSE sent
                 ELSE [calls |-> <<>>, error |-> "none"]
        ELSE [calls |-> <<>>, error |-> "none"]

\* handleMessage(message): the callback invocations it makes and the error
\* its promise is rejected with ("none" when it resolves). payloadOk tells
\* whether getPayload returns. Nothing catches the errors and nothing is
\* logged. With fewer than 13 fields tag is undefined, and tag.startsWith
\* throws a TypeError once the event test of line 168 has passed.
handleMessage(st, message, payloadOk) ==
    LET messageParams == Split(message)
        event == At(messageParams, 0)
        tag   == At(messageParams, TagIndex)
    IN  IF Routed(st, event)
        THEN LET messageType == extractMessageType(tag)
             IN  IF tag = Undefined
                 THEN [calls |-> <<>>, error |-> "TypeError"]
                 ELSE IF Matches(tag, messageType)
                 THEN IF ~payloadOk
                      THEN [calls |-> <<>>, error |-> "PayloadError"]
                      ELSE sendEvent(st, getPayload(At(messageParams, BundleIndex)),
                                     messageType, messageParams)
                 ELSE [calls |-> <<>>, error |-> "none"]
        ELSE [calls |-> <<>>, error |-> "none"]

(***************************************************************************)
(* The messages the upstream sends.                                        *)
(***************************************************************************)
RECURSIVE Join(_)
Join(fields) ==
    IF Len(fields) = 0 THEN <<>>
    ELSE IF Len(fields) = 1 THEN fields[1]
    ELSE fields[1] \o <<SPACE>> \o Join(Tail(fields))

\* Texts for field 5: an integer, an integer with a trailing letter, and a
\* text with no digit.
TimestampTexts == {<<"4", "2">>, <<"7", "z">>, <<"z">>}

\* Tags: with the prefix and a known type, with the prefix and no known
\* type, with a known type and without the prefix, with neither.
Tags == {<<"S", "A">>, <<"S", "Z">>, <<"Q", "B">>, <<"Q", "Z">>}

\* The messages have 13 fields, or lack the last one, or are a bare event.
FieldCounts == {1, TagIndex, TagIndex + 1}

\* The fields no line of the service reads are empty.
Filler == <<>>

Fields(event, ts, tag) ==
    <<event, <<"h">>, <<"a">>, Filler, Filler, ts, Filler, Filler, <<"b">>,
      Filler, Filler, Filler, tag>>

Messages ==
    {Join(SubSeq(Fields(event, ts, tag), 1, n)) :
        event \in Events, ts \in TimestampTexts, tag \in Tags, n \in FieldCounts}

\* ZeroMQ delivers a message to a SUB socket when one of the socket's
\* filters is a prefix of it.
Delivered(sock, message) ==
    /\ sock.present /\ sock.connected /\ sock.handler
    /\ \E e \in Events : sock.filters[e] > 0 /\ StartsWith(message, e)

(***************************************************************************)
(* The state machine. issued counts the uuids drawn; returned holds the    *)
(* ids that a subscribe call returned to its caller; lastOp describes the  *)
(* last call and its outcome, lastMsg the last message handled.            *)
(***************************************************************************)
State == [subscriptions |-> subscriptions, socket |-> socket,
          openSockets |-> openSockets]

NoOp == [op |-> "none", event |-> <<>>, id |-> 0, ret |-> 0, error |-> "none",
         found |-> FALSE, outcome |-> "ok", attempts |-> 0, calls |-> <<>>]

Init ==
    /\ subscriptions = <<>>
    /\ socket = NoSocket
    /\ openSockets = 0
    /\ issued = 0
    /\ returned = {}
    /\ lastOp = NoOp
    /\ lastMsg = <<>>

Install(st) ==
    /\ subscriptions' = st.subscriptions
    /\ socket' = st.socket
    /\ openSockets' = st.openSockets

\* With a socket at hand nothing is opened, and the outcome of opening is
\* of no account.
Subscribe(event, outcome) ==
    /\ issued < MaxIds
    /\ socket.present => outcome = "ok"
    /\ LET id == uuid(issued)
           r  == subscribe(State, event, id, outcome)
       IN  /\ Install(r.st)
           /\ issued' = id
           /\ returned' = IF r.threw THEN returned ELSE returned \cup {r.id}
           /\ lastOp' = [NoOp EXCEPT !.op = "subscribe", !.event = event, !.id = id,
                                     !.ret = r.id, !.attempts = r.attempts,
                                     !.outcome = outcome,
                                     !.error = IF r.threw THEN "ConnectError" ELSE "none"]
    /\ lastMsg' = <<>>

\* The ids a caller may pass: every id drawn so far, and 0, which is never
\* drawn.
Unsubscribe(subscriptionId) ==
    /\ subscriptionId <= issued
    /\ LET r == unsubscribe(State, subscriptionId)
       IN  /\ Install(r.st)
           /\ lastOp' = [NoOp EXCEPT !.op = "unsubscribe", !.id = subscriptionId,
                                     !.found = r.found,
                                     !.error = IF r.threw THEN "TypeError" ELSE "none"]
    /\ lastMsg' = <<>>
    /\ UNCHANGED <<issued, returned>>

HandleMessage(message, payloadOk) ==
    /\ Delivered(socket, message)
    /\ \E r \in {handleMessage(State, message, payloadOk)} :
           lastOp' = [NoOp EXCEPT !.op = "message", !.calls = r.calls,
                                  !.error = r.error]
    /\ lastMsg' = message
    /\ UNCHANGED <<subscriptions, socket, openSockets, issued, returned>>

Next ==
    \/ \E event \in Events, outcome \in OpenOutcomes : Subscribe(event, outcome)
    \/ \E subscriptionId \in 0..MaxIds : Unsubscribe(subscriptionId)
    \/ \E message \in Messages, payloadOk \in BOOLEAN : HandleMessage(message, payloadOk)

Spec == Init /\ [][Next]_vars

(***************************************************************************)
(* Vocabulary of the properties.                                           *)
(***************************************************************************)
\* The id is in some subscriber list.
IsLive(id) ==
    \E e \in DOMAIN subscriptions :
        \E j \in 1..Len(subscriptions[e]) : subscriptions[e][j] = id

\* The event under which a live id is registered.
EventOf(id) ==
    CHOOSE e \in DOMAIN subscriptions :
        \E j \in 1..Len(subscriptions[e]) : subscriptions[e][j] = id

\* The registry holds at least one subscription.
HasSubscription ==
    \E e \in DOMAIN subscriptions : Len(subscriptions[e]) > 0

\* The step is a call unsubscribe(id).
UnsubscribeStep(id) == lastOp'.op = "unsubscribe" /\ lastOp'.id = id

\* The step is a call subscribe(event, callback).
SubscribeStep == lastOp'.op = "subscribe"

(***************************************************************************)
(* C1: after every subscribe and unsubscribe call the socket handle is     *)
(* present if and only if the registry holds at least one subscription.    *)
(* The code breaks it: a subscribe whose zmq.socket('sub') throws has      *)
(* already pushed its subscription, and no socket is set.                  *)
(***************************************************************************)
C1_ConnectionIffRegistry == socket.present <=> HasSubscription

(***************************************************************************)
(* C2: unsubscribe(id) of a live id that is the only subscriber of its     *)
(* event leaves that event's filter off the socket and leaves the socket   *)
(* closed exactly when no other event is registered; unsubscribe(id) of a  *)
(* live id whose event has another subscriber changes neither the filters  *)
(* nor the connection. The code breaks it in the states C1 fails in: with  *)
(* subscriptions registered and no socket, unsubscribe throws and another  *)
(* event stays registered without a socket.                                *)
(***************************************************************************)
C2_UnsubscribeLastSubscriber ==
    [][\A id \in Ids :
          (UnsubscribeStep(id) /\ IsLive(id)) =>
              LET e == EventOf(id)
              IN  IF Len(subscriptions[e]) = 1
                  THEN /\ socket'.filters[e] = 0
                       /\ socket'.present <=> (DOMAIN subscriptions \ {e} # {})
                  ELSE socket' = socket
      ]_vars

(***************************************************************************)
(* C3: unsubscribe(id) with an id that is in no subscriber list returns    *)
(* without error and leaves the registry, the filters and the connection   *)
(* unchanged.                                                              *)
(***************************************************************************)
C3_UnknownIdIsNoOp ==
    [][\A id \in 0..MaxIds :
          (UnsubscribeStep(id) /\ ~IsLive(id)) =>
              /\ lastOp'.error = "none"
              /\ subscriptions' = subscriptions
              /\ socket' = socket
              /\ openSockets' = openSockets
      ]_vars

\* An id that was unsubscribed is unsubscribed again, with a subscription
\* left and the socket connected.
C3_Witness ==
    /\ lastOp.op = "unsubscribe"
    /\ lastOp.id \in 1..issued
    /\ ~IsLive(lastOp.id)
    /\ ~lastOp.found
    /\ HasSubscription
    /\ socket.connected
    /\ \E e \in Events : socket.filters[e] > 0

(***************************************************************************)
(* Vocabulary of the properties about messages.                            *)
(***************************************************************************)
\* The last step handled a message.
MessageHandled == lastOp.op = "message"

\* The number of space-separated fields of a text.
FieldCount(m) == Cardinality({i \in 1..Len(m) : m[i] = SPACE}) + 1

\* Field k (from 0) of the last message.
Field(k) == At(Split(lastMsg), k)

\* The tag classifies to a known message type and starts with the prefix.
TagKnown(tag) == extractMessageType(tag) # Undefined

TagPrefixed(tag) == StartsWith(tag, ConfigPrefix)

\* The ids registered for 'tx'.
TxSubscribers ==
    IF TX \in DOMAIN subscriptions
    THEN {subscriptions[TX][j] : j \in 1..Len(subscriptions[TX])}
    ELSE {}

\* The last message has 13 fields, event 'tx' and a known, prefixed tag.
MatchingMessage ==
    /\ MessageHandled
    /\ FieldCount(lastMsg) = TagIndex + 1
    /\ Field(0) = TX
    /\ TagKnown(Field(TagIndex))
    /\ TagPrefixed(Field(TagIndex))

\* What parseInt(text, 10) is for the timestamp texts of the model.
ExpectedTimestamp(text) ==
    CASE text = <<"4", "2">> -> Number(42)
      [] text = <<"7", "z">> -> Number(7)
      [] text = <<"z">>      -> NaN

\* One callback was invoked, with event 'tx' and the payload of the message.
DispatchedOnce ==
    /\ Len(lastOp.calls) = 1
    /\ lastOp.calls[1].id \in TxSubscribers
    /\ lastOp.calls[1].event = TX
    /\ lastOp.calls[1].payload.hash = Field(HashIndex)
    /\ lastOp.calls[1].payload.address = Field(AddressIndex)
    /\ lastOp.calls[1].payload.tag = Field(TagIndex)
    /\ lastOp.calls[1].payload.timestamp = ExpectedTimestamp(Field(TimestampIndex))

C5_UnmatchedTagDropped ==
    ( /\ MessageHandled
      /\ FieldCount(lastMsg) = TagIndex + 1
      /\ Field(0) = TX
      /\ ~(TagKnown(Field(TagIndex)) /\ TagPrefixed(Field(TagIndex))) )
        => (lastOp.calls = <<>> /\ lastOp.error = "none")

\* A 'tx' message with a known tag that lacks the prefix was dropped with a
\* subscriber for 'tx' registered.
C5_Witness ==
    /\ MessageHandled
    /\ FieldCount(lastMsg) = TagIndex + 1
    /\ Field(0) = TX
    /\ TagKnown(Field(TagIndex))
    /\ ~TagPrefixed(Field(TagIndex))
    /\ TxSubscribers # {}
    /\ lastOp.calls = <<>>

(***************************************************************************)
(* C6: a message whose event is not 'tx' invokes no callback, also with    *)
(* subscribers registered for its event; a 'tx' message invokes no         *)
(* callback when no subscriber is registered for 'tx'.                     *)
(***************************************************************************)
C6_OnlyTxWithSubscriberDispatches ==
    (MessageHandled /\ (Field(0) # TX \/ TxSubscribers = {}))
        => lastOp.calls = <<>>

\* A 13-field message of another event, with a known, prefixed tag and a
\* subscriber for that event, was handled.
C6_Witness ==
    /\ MessageHandled
    /\ FieldCount(lastMsg) = TagIndex + 1
    /\ Field(0) = T
    /\ TagKnown(Field(TagIndex)) /\ TagPrefixed(Field(TagIndex))
    /\ T \in DOMAIN subscriptions
    /\ Len(subscriptions[T]) > 0
    /\ lastOp.calls = <<>>

(***************************************************************************)
(* C7: with two subscriptions under one event, unsubscribing one does not  *)
(* change which messages reach the other. WouldReceive tells whether a     *)
(* matching message reaches an id. The code breaks it: only the head of    *)
(* the list is served, so removing the head starts delivery to the next.   *)
(***************************************************************************)
WouldReceive(subs, id) ==
    /\ TX \in DOMAIN subs
    /\ \E k \in 1..Len(DispatchTargets(subs[TX])) : DispatchTargets(subs[TX])[k] = id

C7_UnsubscribeKeepsDeliveryToOther ==
    [][\A a, b \in Ids :
          ( /\ a # b
            /\ UnsubscribeStep(a)
            /\ IsLive(a) /\ IsLive(b)
            /\ EventOf(a) = TX /\ EventOf(b) = TX )
          => (WouldReceive(subscriptions', b) <=> WouldReceive(subscriptions, b))
      ]_vars

(***************************************************************************)
(* C8: every subscribe call returns an id that no earlier call returned    *)
(* or drew, and every id is in at most one subscriber list, at most once.  *)
(***************************************************************************)
Occurrences(subs, id) ==
    UNION {{<<e, j>> : j \in {k \in 1..Len(subs[e]) : subs[e][k] = id}} :
              e \in DOMAIN subs}

C8_IdsUnique ==
    [][/\ (SubscribeStep /\ lastOp'.ret # 0) =>
              /\ lastOp'.ret \notin returned
              /\ lastOp'.ret \notin 1..issued
       /\ \A id \in Ids : Cardinality(Occurrences(subscriptions', id)) <= 1
      ]_vars

\* A subscribe call returned an id for an event that already had a
\* subscriber, after an id it had returned was unsubscribed.
C8_Witness ==
    /\ lastOp.op = "subscribe"
    /\ lastOp.ret # 0
    /\ IsLive(lastOp.ret)
    /\ Len(subscriptions[lastOp.event]) >= 2
    /\ \E id \in returned : ~IsLive(id)

(***************************************************************************)
(* C9: when opening the socket fails during subscribe, the call ends with  *)
(* an error and returns no id, it has tried to open once, and the          *)
(* subscription it pushed stays in the registry.                           *)
(***************************************************************************)
C9_OpenFailureSurfaces ==
    [][(SubscribeStep /\ ~socket.present /\ lastOp'.outcome # "ok") =>
          /\ lastOp'.error = "ConnectError"
          /\ lastOp'.ret = 0
          /\ returned' = returned
          /\ lastOp'.attempts = 1
          /\ lastOp'.event \in DOMAIN subscriptions'
          /\ \E j \in 1..Len(subscriptions'[lastOp'.event]) :
                subscriptions'[lastOp'.event][j] = lastOp'.id
      ]_vars

\* A subscribe call failed at socket.connect(endpoint), with an earlier
\* subscription in the registry.
C9_Witness ==
    /\ lastOp.op = "subscribe"
    /\ lastOp.outcome = "connectThrows"
    /\ lastOp.error = "ConnectError"
    /\ lastOp.attempts = 1
    /\ IsLive(lastOp.id)
    /\ \E id \in Ids : id # lastOp.id /\ IsLive(id)

(***************************************************************************)
(* C10: handling a message with fewer than 13 fields ends in a reported    *)
(* error and invokes no callback, whatever its event and the registry.     *)
(* The code breaks it: without the key 'tx', or with another event, the    *)
(* test of line 168 fails and the message is dropped with no error.        *)
(***************************************************************************)
C10_ShortMessageIsReported ==
    (MessageHandled /\ FieldCount(lastMsg) < TagIndex + 1)
        => (lastOp.error # "none" /\ lastOp.calls = <<>>)

(***************************************************************************)
(* C11: a 13-field 'tx' message with a known, prefixed tag whose field 5   *)
(* is no base-10 integer is reported as malformed and invokes no callback; *)
(* no payload with a timestamp that is no integer reaches a callback. The  *)
(* code breaks it: parseInt yields NaN, nothing tests it, and the callback *)
(* is invoked with timestamp NaN.                                          *)
(***************************************************************************)
C11_UnparseableTimestampReported ==
    /\ ( /\ MatchingMessage
         /\ TxSubscribers # {}
         /\ ParseInt(Field(TimestampIndex)).isNaN )
        => (lastOp.calls = <<>> /\ lastOp.error # "none")
    /\ \A k \in 1..Len(lastOp.calls) : ~lastOp.calls[k].payload.timestamp.isNaN

(***************************************************************************)
(* C12: when getPayload fails for a matching message, no callback is       *)
(* invoked for it, registry and connection are unchanged, and the next     *)
(* matching message is dispatched as it would have been without it (F are  *)
(* the fields of that next message).                                       *)
(***************************************************************************)
C12_PayloadFailureIsLocal ==
    [][/\ (lastOp'.op = "message" /\ lastOp'.error = "PayloadError") =>
              /\ lastOp'.calls = <<>>
              /\ subscriptions' = subscriptions
              /\ socket' = socket
              /\ openSockets' = openSockets
       /\ ( /\ lastOp.op = "message" /\ lastOp.error = "PayloadError"
            /\ lastOp'.op = "message" /\ lastOp'.error # "PayloadError"
            /\ TxSubscribers # {} )
          => \A F \in {Split(lastMsg')} :
                ( /\ Len(F) = TagIndex + 1
                  /\ F[1] = TX
                  /\ TagKnown(F[TagIndex + 1])
                  /\ TagPrefixed(F[TagIndex + 1]) )
                => /\ Len(lastOp'.calls) = 1
                   /\ lastOp'.calls[1].id \in TxSubscribers
                   /\ lastOp'.calls[1].event = TX
                   /\ lastOp'.calls[1].payload.hash = F[HashIndex + 1]
                   /\ lastOp'.calls[1].payload.address = F[AddressIndex + 1]
                   /\ lastOp'.calls[1].payload.tag = F[TagIndex + 1]
                   /\ lastOp'.calls[1].payload.timestamp
                         = ExpectedTimestamp(F[TimestampIndex + 1])
      ]_vars

\* getPayload failed for a matching message with a subscriber for 'tx' on a
\* connected socket: nothing was invoked.
C12_Witness ==
    /\ MatchingMessage
    /\ lastOp.error = "PayloadError"
    /\ lastOp.calls = <<>>
    /\ TxSubscribers # {}
    /\ socket.connected /\ socket.handler

(***************************************************************************)
(* C13: at most one socket is open at any time, and a subscribe call made  *)
(* while a socket handle exists opens no socket and attaches no handler.   *)
(***************************************************************************)
C13_AtMostOneSocket ==
    [][/\ openSockets' \in {0, 1}
       /\ openSockets' = 1 <=> socket'.present
       /\ (SubscribeStep /\ socket.present) =>
              /\ lastOp'.attempts = 0
              /\ openSockets' = openSockets
              /\ socket'.present
              /\ socket'.handler = socket.handler
              /\ socket'.connected = socket.connected
      ]_vars

\* A subscribe call for a second event returned with the socket already
\* open: it opened nothing.
C13_Witness ==
    /\ lastOp.op = "subscribe"
    /\ lastOp.ret # 0
    /\ lastOp.attempts = 0
    /\ openSockets = 1
    /\ socket.connected /\ socket.handler
    /\ DOMAIN subscriptions = Events

(***************************************************************************)
(* C14: an event is a key of the registry if and only if its list has a    *)
(* subscriber, and the registry has no key if and only if nothing is       *)
(* subscribed. The code breaks it: unsubscribe splices the last subscriber *)
(* out, then throws at this._socket.unsubscribe when no socket is set,     *)
(* before the key is deleted.                                              *)
(***************************************************************************)
C14_KeysHaveSubscribers ==
    /\ \A e \in DOMAIN subscriptions : Len(subscriptions[e]) > 0
    /\ DOMAIN subscriptions = {} <=> ~HasSubscription

(***************************************************************************)
(* C15: whenever the connection is open, the filters set on the socket are *)
(* those of the registry's keys, each applied once.                        *)
(***************************************************************************)
C15_FiltersMatchKeys ==
    socket.connected =>
        \A e \in Events :
            socket.filters[e] = IF e \in DOMAIN subscriptions THEN 1 ELSE 0

\* A subscribe call opened a socket anew after a full teardown: no open
\* ever failed, an id that was returned is gone, and this call found no
\* socket.
C15_Witness ==
    /\ lastOp.op = "subscribe"
    /\ lastOp.attempts = 1
    /\ lastOp.outcome = "ok"
    /\ returned = 1..issued
    /\ \E id \in returned : ~IsLive(id)
    /\ socket.connected
    /\ socket.filters[lastOp.event] = 1

C18_UnsubscribedIsNeverCalled ==
    [][/\ lastOp'.op = "unsubscribe" => Holders(subscriptions', lastOp'.id) = {}
       /\ \A id \in Ids :
              (id <= issued /\ Holders(subscriptions, id) = {})
                  => Holders(subscriptions', id) = {}
       /\ lastOp'.op = "message" =>
              /\ \A k \in 1..Len(lastOp'.calls) :
                     Holders(subscriptions', lastOp'.calls[k].id) # {}
              /\ socket'.present
              /\ socket'.handler
      ]_vars

\* The first 'tx' subscriber was unsubscribed, and the message handled
\* afterwards invoked the callback of the second one.
C18_Witness ==
    /\ MessageHandled
    /\ 1 \in returned
    /\ ~IsLive(1)
    /\ Len(lastOp.calls) = 1
    /\ lastOp.calls[1].id = 2

(***************************************************************************)
(* C19: unsubscribe(id) of an id that is in a subscriber list completes    *)
(* without an error in every reachable state; afterwards the id is gone    *)
(* and no event key holds an empty subscriber list.  The code breaks it:   *)
(* after a subscribe whose zmq.socket('sub') threw, the pushed id is the   *)
(* only subscriber and there is no socket, so line 68 raises a TypeError   *)
(* and the key stays with an empty list.                                   *)
(***************************************************************************)
C19_UnsubscribeOfLiveIdCompletes ==
    (lastOp.op = "unsubscribe" /\ lastOp.found) =>
        /\ lastOp.error = "none"
        /\ ~IsLive(lastOp.id)
        /\ \A e \in DOMAIN subscriptions : Len(subscriptions[e]) > 0

(***************************************************************************)
(* C20: a subscribe call that follows a subscribe call which failed to     *)
(* open the socket makes a new attempt to open it, and when the call       *)
(* succeeds the socket is connected, the handler is attached and every     *)
(* registered event key has its filter.  The code breaks it: when          *)
(* socket.connect(endpoint) threw, _socket was already assigned at line    *)
(* 88, so the next connect() skips the whole block of lines 88-96.         *)
(***************************************************************************)
C20_LaterSubscribeRetries ==
    [][(lastOp.op = "subscribe" /\ lastOp.error = "ConnectError"
            /\ SubscribeStep) =>
           /\ lastOp'.attempts = 1
           /\ lastOp'.error = "none" =>
                  /\ socket'.connected
                  /\ socket'.handler
                  /\ \A e \in Events :
                         socket'.filters[e] =
                             IF e \in DOMAIN subscriptions' THEN 1 ELSE 0
      ]_vars

====
